---- MODULE Spec2Model ----
(* BudgetTrack API (app/main.py): two SQLite tables, expenses and budgets,   *)
(* and the request handlers that read and write them.  Every handler runs    *)
(* in its own session; a handler that raises leaves the tables as they were. *)
(* Amounts are modelled as integers (the Float columns hold them exactly).   *)
(* The list endpoints, the static root document and the recent_expenses      *)
(* field of the summary are not modelled.                                    *)
EXTENDS Integers, FiniteSets, Sequences, Bags, TLC

\* ---------------------------------------------------------------- bounds
MaxExpenseId == 2     \* create_expense is not issued once rowids pass this
MaxClock == 1         \* the clock (datetime.utcnow) stops advancing here
NumWorkers == 2       \* concurrent create_budget requests in flight

\* ---------------------------------------------------------------- inputs
None == "None"

\* ExpenseCreate bodies; description is None when the body omits it.
ExpensePayloads ==
  { [title |-> "Lunch",  amount |-> 50, category |-> "Food",      description |-> "cafe"],
    [title |-> "Dinner", amount |-> 30, category |-> "Food",      description |-> None],
    [title |-> "Bus",    amount |-> 20, category |-> "Transport", description |-> None] }

\* BudgetCreate bodies.
BudgetPayloads ==
  { [category |-> "Food",      amount |-> 40, month |-> "June", year |-> 2024],
    [category |-> "Food",      amount |-> 60, month |-> "June", year |-> 2024],
    [category |-> "Food",      amount |-> 60, month |-> "July", year |-> 2024],
    [category |-> "Transport", amount |-> 10, month |-> "June", year |-> 2025] }

Categories == {"Food", "Transport"}
ExpenseIds == 1..MaxExpenseId
Workers == 1..NumWorkers

\* ---------------------------------------------------------------- state
VARIABLES
  expenses,   \* rows of table expenses
  budgets,    \* rows of table budgets
  now,        \* datetime.utcnow()
  last,       \* the latest completed request and its response; id is the
              \* expense id the request names or, for create_expense, is
              \* answered with
  prev,       \* the request completed before it, and its status
  worker      \* per concurrent create_budget request: position and locals

vars == <<expenses, budgets, now, last, prev, worker>>

NoPayload == [none |-> TRUE]
NoCall == [op |-> "none", id |-> 0, req |-> NoPayload, status |-> 0, body |-> NoPayload]
Idle == [pc |-> "idle", req |-> NoPayload, existing |-> NoPayload, status |-> 0]

Call(op, id, req, status, body) ==
  [op |-> op, id |-> id, req |-> req, status |-> status, body |-> body]

NotFound == [detail |-> "Expense not found"]
ServerError == [detail |-> "Internal Server Error"]

\* The columns of the two tables; id is the primary key of each.
TypeOK ==
  /\ \A r \in expenses :
       /\ r.id \in Nat \ {0}
       /\ [title |-> r.title, amount |-> r.amount, category |-> r.category,
           description |-> r.description] \in ExpensePayloads
       /\ r.date \in 0..now
  /\ \A r \in budgets :
       /\ r.id \in Nat \ {0}
       /\ [category |-> r.category, amount |-> r.amount, month |-> r.month,
           year |-> r.year] \in BudgetPayloads
  /\ \A r1, r2 \in expenses : r1.id = r2.id => r1 = r2
  /\ \A r1, r2 \in budgets : r1.id = r2.id => r1 = r2

\* ---------------------------------------------------------------- storage
Max(S) == CHOOSE x \in S : \A y \in S : y <= x

\* INTEGER PRIMARY KEY without AUTOINCREMENT: one more than the largest rowid.
NextId(rows) == IF rows = {} THEN 1 ELSE Max({r.id : r \in rows}) + 1

\* Mutant: the query without its filter, so first() is the first row stored.
FindExpenseFirst(rows, expense_id) ==
  IF rows = {} THEN NoPayload
  ELSE CHOOSE r \in rows : \A q \in rows : r.id <= q.id

\* db.query(Expense).filter(Expense.id == expense_id).first()
FindExpense(rows, expense_id) ==
  IF \E r \in rows : r.id = expense_id
    THEN CHOOSE r \in rows : r.id = expense_id
    ELSE NoPayload

\* Expense(**expense.dict()); the date column defaults to datetime.utcnow.
NewExpense(rows, payload, clock) ==
  [id |-> NextId(rows), title |-> payload.title, amount |-> payload.amount,
   category |-> payload.category, description |-> payload.description,
   date |-> clock]

\* Mutant: a partial patch, which skips the fields the payload leaves None.
SetAttrsSkipNone(row, payload) ==
  [row EXCEPT !.title = payload.title, !.amount = payload.amount,
              !.category = payload.category,
              !.description = IF payload.description = None
                                THEN row.description ELSE payload.description]

\* for key, value in expense.dict().items(): setattr(db_expense, key, value)
SetAttrs(row, payload) ==
  [row EXCEPT !.title = payload.title, !.amount = payload.amount,
              !.category = payload.category, !.description = payload.description]

\* db.query(Budget).filter(category ==, month ==, year ==).first()
LookupBudget(rows, payload) ==
  LET found == {r \in rows : /\ r.category = payload.category
                             /\ r.month = payload.month
                             /\ r.year = payload.year}
  IN IF found = {} THEN NoPayload
     ELSE CHOOSE r \in found : \A q \in found : r.id <= q.id

\* Budget(**budget.dict())
NewBudget(rows, payload) ==
  [id |-> NextId(rows), category |-> payload.category, amount |-> payload.amount,
   month |-> payload.month, year |-> payload.year]

\* Mutant: the category column declared without unique=True.
NoUniqueConstraint(rows, row) == FALSE

\* category = Column(String, unique=True): the INSERT is refused when another
\* row already holds the category.
UniqueViolation(rows, row) == \E r \in rows : r.category = row.category

\* Mutant: every request adds a row; no update branch, no constraint.
WriteBudgetAlwaysInsert(rows, existing_budget, payload) ==
  LET db_budget == NewBudget(rows, payload)
  IN [rows |-> rows \cup {db_budget}, status |-> 200, body |-> db_budget]

\* Mutant: the update branch replaces the matching row by a newly added one.
WriteBudgetReinsert(rows, existing_budget, payload) ==
  IF existing_budget # NoPayload
    THEN LET stored == CHOOSE r \in rows : r.id = existing_budget.id
             db_budget == NewBudget(rows, payload)
         IN [rows |-> (rows \ {stored}) \cup {db_budget}, status |-> 200,
             body |-> db_budget]
    ELSE LET db_budget == NewBudget(rows, payload)
         IN IF \E r \in rows : r.category = db_budget.category
              THEN [rows |-> rows, status |-> 500, body |-> ServerError]
              ELSE [rows |-> rows \cup {db_budget}, status |-> 200, body |-> db_budget]

\* The statements of create_budget after the lookup.  existing_budget is the
\* row the lookup loaded (NoPayload when it found none).  An amount equal to
\* the loaded one is no change for the session, so no UPDATE is flushed; the
\* refresh then reads the row as it is stored.  A refused INSERT raises out of
\* db.commit(), the session is closed and nothing is written.
WriteBudget(rows, existing_budget, payload) ==
  IF existing_budget # NoPayload
    THEN LET stored == CHOOSE r \in rows : r.id = existing_budget.id
             written == IF payload.amount = existing_budget.amount
                          THEN stored
                          ELSE [stored EXCEPT !.amount = payload.amount]
         IN [rows |-> (rows \ {stored}) \cup {written}, status |-> 200, body |-> written]
    ELSE LET db_budget == NewBudget(rows, payload)
         IN IF UniqueViolation(rows, db_budget)
              THEN [rows |-> rows, status |-> 500, body |-> ServerError]
              ELSE [rows |-> rows \cup {db_budget}, status |-> 200, body |-> db_budget]

\* A nullable SQL number.
SqlNull == [null |-> TRUE, value |-> 0]
SqlInt(n) == [null |-> FALSE, value |-> n]

\* SUM(amount): NULL over no rows, else the rows' amounts added up.
RECURSIVE SqlSum(_)
SqlSum(rows) ==
  IF rows = {} THEN SqlNull
  ELSE LET r == CHOOSE x \in rows : TRUE
       IN SqlInt(r.amount + SqlSum(rows \ {r}).value)

\* COALESCE(value, default)
Coalesce(value, default) == IF value.null THEN default ELSE value.value

\* Mutant: the query without GROUP BY aggregation, one entry per expense row.
GroupByRow(rows) ==
  SetToBag({ [category |-> r.category, amount |-> r.amount] : r \in rows })

\* SELECT category, SUM(amount) FROM expenses GROUP BY category: one row per
\* distinct category value, kept as a bag since the order is the store's.
GroupByCategory(rows) ==
  SetToBag({ [category |-> c, amount |-> SqlSum({r \in rows : r.category = c}).value] :
             c \in {r.category : r \in rows} })

\* Mutant: remaining_budget clamped at zero.
SummaryClamped(exps, buds) ==
  LET total_expenses == Coalesce(SqlSum(exps), 0)
      total_budget == Coalesce(SqlSum(buds), 0)
  IN [total_expenses |-> total_expenses,
      total_budget |-> total_budget,
      remaining_budget |-> IF total_budget < total_expenses
                             THEN 0 ELSE total_budget - total_expenses,
      category_expenses |-> GroupByCategory(exps)]

Summary(exps, buds) ==
  LET total_expenses == Coalesce(SqlSum(exps), 0)
      total_budget == Coalesce(SqlSum(buds), 0)
  IN [total_expenses |-> total_expenses,
      total_budget |-> total_budget,
      remaining_budget |-> total_budget - total_expenses,
      category_expenses |-> GroupByCategory(exps)]

\* ---------------------------------------------------------------- expenses
Record(call) ==
  /\ last' = call
  /\ prev' = [op |-> last.op, id |-> last.id, req |-> last.req, status |-> last.status]

create_expense(payload) ==
  /\ NextId(expenses) <= MaxExpenseId
  /\ LET db_expense == NewExpense(expenses, payload, now)
     IN /\ expenses' = expenses \cup {db_expense}
        /\ Record(Call("create_expense", db_expense.id, payload, 200, db_expense))
  /\ UNCHANGED <<budgets, now, worker>>

get_expense(expense_id) ==
  /\ LET expense == FindExpense(expenses, expense_id)
     IN IF expense = NoPayload
          THEN Record(Call("get_expense", expense_id, NoPayload, 404, NotFound))
          ELSE Record(Call("get_expense", expense_id, NoPayload, 200, expense))
  /\ UNCHANGED <<expenses, budgets, now, worker>>

\* Mutant: an update of a missing id stores the payload under that id.
update_expense_upsert(expense_id, payload) ==
  /\ LET db_expense == FindExpense(expenses, expense_id)
         updated == IF db_expense = NoPayload
                      THEN [NewExpense(expenses, payload, now) EXCEPT !.id = expense_id]
                      ELSE SetAttrs(db_expense, payload)
     IN /\ expenses' = (expenses \ {db_expense}) \cup {updated}
        /\ Record(Call("update_expense", expense_id, payload, 200, updated))
  /\ UNCHANGED <<budgets, now, worker>>

update_expense(expense_id, payload) ==
  /\ LET db_expense == FindExpense(expenses, expense_id)
     IN IF db_expense = NoPayload
          THEN /\ Record(Call("update_expense", expense_id, payload, 404, NotFound))
               /\ UNCHANGED expenses
          ELSE LET updated == SetAttrs(db_expense, payload)
               IN /\ expenses' = (expenses \ {db_expense}) \cup {updated}
                  /\ Record(Call("update_expense", expense_id, payload, 200, updated))
  /\ UNCHANGED <<budgets, now, worker>>

\* Mutant: the delete is never committed.
delete_expense_nocommit(expense_id) ==
  /\ LET db_expense == FindExpense(expenses, expense_id)
     IN IF db_expense = NoPayload
          THEN Record(Call("delete_expense", expense_id, NoPayload, 404, NotFound))
          ELSE Record(Call("delete_expense", expense_id, NoPayload, 200,
                           [message |-> "Expense deleted successfully"]))
  /\ UNCHANGED <<expenses, budgets, now, worker>>

delete_expense(expense_id) ==
  /\ LET db_expense == FindExpense(expenses, expense_id)
     IN IF db_expense = NoPayload
          THEN /\ Record(Call("delete_expense", expense_id, NoPayload, 404, NotFound))
               /\ UNCHANGED expenses
          ELSE /\ expenses' = expenses \ {db_expense}
               /\ Record(Call("delete_expense", expense_id, NoPayload, 200,
                              [message |-> "Expense deleted successfully"]))
  /\ UNCHANGED <<budgets, now, worker>>

\* ---------------------------------------------------------------- budgets
\* One request with nothing interleaved between its lookup and its write.
create_budget(payload) ==
  /\ LET existing_budget == LookupBudget(budgets, payload)
         done == WriteBudget(budgets, existing_budget, payload)
     IN /\ budgets' = done.rows
        /\ Record(Call("create_budget", 0, payload, done.status, done.body))
  /\ UNCHANGED <<expenses, now, worker>>

\* ---------------------------------------------------------------- analytics
get_summary ==
  /\ Record(Call("get_summary", 0, NoPayload, 200, Summary(expenses, budgets)))
  /\ UNCHANGED <<expenses, budgets, now, worker>>

\* ------------------------------------------------- concurrent create_budget
\* The same handler, one statement at a time: the query, then the commit.
BudgetLookup(w, payload) ==
  /\ worker[w].pc = "idle"
  /\ worker' = [worker EXCEPT ![w] =
                  [pc |-> "looked", req |-> payload,
                   existing |-> LookupBudget(budgets, payload), status |-> 0]]
  /\ UNCHANGED <<expenses, budgets, now, last, prev>>

BudgetWrite(w) ==
  /\ worker[w].pc = "looked"
  /\ LET done == WriteBudget(budgets, worker[w].existing, worker[w].req)
     IN /\ budgets' = done.rows
        /\ worker' = [worker EXCEPT ![w].pc = "done", ![w].status = done.status]
  /\ UNCHANGED <<expenses, now, last, prev>>

BudgetReturn(w) ==
  /\ worker[w].pc = "done"
  /\ worker' = [worker EXCEPT ![w] = Idle]
  /\ UNCHANGED <<expenses, budgets, now, last, prev>>

Tick ==
  /\ now < MaxClock
  /\ now' = now + 1
  /\ UNCHANGED <<expenses, budgets, last, prev, worker>>

Init ==
  /\ expenses = {}
  /\ budgets = {}
  /\ now = 0
  /\ last = NoCall
  /\ prev = [op |-> "none", id |-> 0, req |-> NoPayload, status |-> 0]
  /\ worker = [w \in Workers |-> Idle]

CreateExpense == \E payload \in ExpensePayloads : create_expense(payload)
GetExpense == \E expense_id \in ExpenseIds : get_expense(expense_id)
UpdateExpense == \E expense_id \in ExpenseIds, payload \in ExpensePayloads :
                   update_expense(expense_id, payload)
CreateBudget == \E payload \in BudgetPayloads : create_budget(payload)
DeleteExpense == \E expense_id \in ExpenseIds : delete_expense(expense_id)

Next ==
  \/ CreateExpense
  \/ GetExpense
  \/ UpdateExpense
  \/ DeleteExpense
  \/ CreateBudget
  \/ get_summary
  \/ Tick

Spec == Init /\ [][Next]_vars

NextConc ==
  \/ \E w \in Workers, payload \in BudgetPayloads : BudgetLookup(w, payload)
  \/ \E w \in Workers : BudgetWrite(w)
  \/ \E w \in Workers : BudgetReturn(w)

SpecConc == Init /\ [][NextConc]_vars

\* ================================================================ properties
\* A step that completes a request of the given kind (Tick completes none).
IsCall(op) == /\ last'.op = op
              /\ <<last', prev'>> # <<last, prev>>

SameKey(a, b) == /\ a.category = b.category
                 /\ a.month = b.month
                 /\ a.year = b.year

Stored(rows, key) == {r \in rows : SameKey(r, key)}

\* The amounts of the rows added up in primary-key order.
AmountOfId(rows, i) ==
  IF \E r \in rows : r.id = i THEN (CHOOSE r \in rows : r.id = i).amount ELSE 0

RECURSIVE TotalUpTo(_, _)
TotalUpTo(rows, n) == IF n = 0 THEN 0 ELSE AmountOfId(rows, n) + TotalUpTo(rows, n - 1)

Total(rows) == TotalUpTo(rows, NextId(rows) - 1)

\* ---------------------------------------------------------------- C1
\* C1: with create_budget requests running one after the other from an empty
\* budgets table, no two Budget rows ever share (category, month, year).
C1_OnePerKey ==
  \A r1, r2 \in budgets : SameKey(r1, r2) => r1 = r2

\* The same key was upserted twice in a row (with different amounts) while
\* another key is stored as well.
C1_Witness ==
  /\ prev.op = "create_budget" /\ last.op = "create_budget"
  /\ prev.status = 200 /\ last.status = 200
  /\ SameKey(prev.req, last.req)
  /\ prev.req.amount # last.req.amount
  /\ Cardinality(budgets) = 2

C3_InsertsWhenKeyAbsent ==
  [][ ( /\ IsCall("create_budget")
        /\ Stored(budgets, last'.req) = {} )
      => /\ last'.status = 200
         /\ \E row \in budgets' :
              /\ budgets' = budgets \cup {row}
              /\ \A r \in budgets : r.id # row.id
              /\ row = last'.body
              /\ SameKey(row, last'.req)
              /\ row.amount = last'.req.amount ]_vars

\* ---------------------------------------------------------------- C4
\* The update branch as one step, and the outcome of two upserts in a row.
C4_Step ==
  ( /\ IsCall("create_budget")
    /\ Stored(budgets, last'.req) # {} )
  => \E m \in budgets :
       /\ SameKey(m, last'.req)
       /\ last'.status = 200
       /\ last'.body = [id |-> m.id, category |-> m.category, month |-> m.month,
                        year |-> m.year, amount |-> last'.req.amount]
       /\ budgets' = (budgets \ {m}) \cup {last'.body}
       /\ Cardinality(budgets') = Cardinality(budgets)
       /\ expenses' = expenses

C4_Twice ==
  ( /\ prev.op = "create_budget" /\ last.op = "create_budget"
    /\ prev.status = 200
    /\ SameKey(prev.req, last.req)
    /\ prev.req.amount # last.req.amount )
  => /\ Cardinality(Stored(budgets, last.req)) = 1
     /\ \A r \in Stored(budgets, last.req) : r.amount = last.req.amount

C5_CreateThenGet ==
  [][ /\ IsCall("create_expense") => last'.status = 200
      /\ ( /\ last.op = "create_expense"
           /\ IsCall("get_expense")
           /\ last'.id = last.body.id )
         => /\ last'.status = 200
            /\ last'.body.id = last.body.id
            /\ last'.body.title = last.body.title
            /\ last'.body.amount = last.body.amount
            /\ last'.body.category = last.body.category
            /\ last'.body.description = last.body.description
            /\ last'.body.date = last.body.date ]_vars

\* A second expense was created after the clock moved and then read back.
C5_Witness ==
  /\ prev.op = "create_expense" /\ last.op = "get_expense"
  /\ last.id = prev.id
  /\ last.status = 200
  /\ last.id = 2
  /\ last.body.date > 0
  /\ Cardinality(expenses) = 2

\* ---------------------------------------------------------------- C6
\* The update as one step, and the read that follows it.
C6_Update ==
  ( /\ IsCall("update_expense")
    /\ \E r \in expenses : r.id = last'.id )
  => \E r \in expenses :
       /\ r.id = last'.id
       /\ last'.status = 200
       /\ last'.body = [id |-> r.id, date |-> r.date,
                        title |-> last'.req.title, amount |-> last'.req.amount,
                        category |-> last'.req.category,
                        description |-> last'.req.description]
       /\ expenses' = (expenses \ {r}) \cup {last'.body}
       /\ budgets' = budgets

C6_Get ==
  ( /\ last.op = "update_expense" /\ last.status = 200
    /\ IsCall("get_expense")
    /\ last'.id = last.id )
  => /\ last'.status = 200
     /\ last'.body = last.body
     /\ last'.body.title = last.req.title
     /\ last'.body.amount = last.req.amount
     /\ last'.body.category = last.req.category
     /\ last'.body.description = last.req.description

\* C6: update_expense on a stored id sets title, amount, category and
\* description to the payload's (description None when omitted) and keeps id
\* and date; every other Expense and every Budget stays as it was; a
\* get_expense for the id issued next returns exactly that record.
C6_UpdateThenGet == [][C6_Update /\ C6_Get]_vars

\* An expense created with a description was updated, after the clock moved,
\* by a payload that omits it, and read back; another expense and a budget
\* are stored.
C6_Witness ==
  /\ prev.op = "update_expense" /\ prev.status = 200
  /\ last.op = "get_expense" /\ last.id = prev.id
  /\ prev.req.description = None
  /\ last.body.date < now
  /\ Cardinality(expenses) = 2
  /\ budgets # {}

\* ---------------------------------------------------------------- C7
\* The delete as one step, and the read that follows it.
C7_Delete ==
  ( /\ IsCall("delete_expense")
    /\ \E r \in expenses : r.id = last'.id )
  => \E r \in expenses :
       /\ r.id = last'.id
       /\ last'.status = 200
       /\ expenses' = expenses \ {r}
       /\ Cardinality(expenses') = Cardinality(expenses) - 1
       /\ budgets' = budgets

C7_Get ==
  ( /\ last.op = "delete_expense" /\ last.status = 200
    /\ IsCall("get_expense")
    /\ last'.id = last.id )
  => /\ last'.status = 404
     /\ last'.body = NotFound

\* C7: delete_expense on a stored id removes that row and nothing else, and a
\* get_expense for the id issued as the next request answers 404.
C7_DeleteThenGet == [][C7_Delete /\ C7_Get]_vars

C7_Witness ==
  /\ prev.op = "delete_expense" /\ prev.status = 200
  /\ last.op = "get_expense" /\ last.id = prev.id
  /\ last.status = 404
  /\ expenses # {}
  /\ budgets # {}

\* ---------------------------------------------------------------- C8
\* C8: get_summary answers total_expenses = the sum of the stored Expense
\* amounts, total_budget = the sum of the stored Budget amounts (0 for an
\* empty table) and remaining_budget = total_budget - total_expenses, which
\* is negative when the expenses exceed the budgets.
C8_SummaryTotals ==
  last.op = "get_summary" =>
    /\ last.status = 200
    /\ last.body.total_expenses = Total(expenses)
    /\ last.body.total_budget = Total(budgets)
    /\ last.body.remaining_budget = Total(budgets) - Total(expenses)
    /\ expenses = {} => last.body.total_expenses = 0
    /\ budgets = {} => last.body.total_budget = 0
    /\ Total(expenses) > Total(budgets) => last.body.remaining_budget < 0

\* A summary over stored budgets that the stored expenses exceed.
C8_Witness ==
  /\ last.op = "get_summary"
  /\ budgets # {}
  /\ Cardinality(expenses) = 2
  /\ last.body.remaining_budget < 0

\* ---------------------------------------------------------------- C9
\* C9: category_expenses of get_summary holds one entry per category that
\* some stored Expense has, with the sum of those Expenses' amounts, and no
\* entry for any other category.
C9_CategoryExpenses ==
  last.op = "get_summary" =>
    LET entries == last.body.category_expenses
    IN /\ \A e \in BagToSet(entries) : \E r \in expenses : r.category = e.category
       /\ \A c \in Categories :
            LET of_c == {r \in expenses : r.category = c}
                for_c == {e \in BagToSet(entries) : e.category = c}
            IN IF of_c = {}
                 THEN for_c = {}
                 ELSE /\ for_c = {[category |-> c, amount |-> Total(of_c)]}
                      /\ \A e \in for_c : CopiesIn(e, entries) = 1

\* A summary taken right after a delete or an update left two expenses in one
\* category and none in the other.
C9_Witness ==
  /\ last.op = "get_summary"
  /\ prev.op \in {"delete_expense", "update_expense"} /\ prev.status = 200
  /\ Cardinality(expenses) = 2
  /\ \A r \in expenses : r.category = "Food"
  /\ \E r1, r2 \in expenses : r1.amount # r2.amount

\* ---------------------------------------------------------------- C10
\* C10: get_expense, update_expense and delete_expense for an id that no
\* stored Expense has answer 404 'Expense not found' and leave both tables
\* as they were.
C10_NotFound ==
  [][ \A op \in {"get_expense", "update_expense", "delete_expense"} :
        ( /\ IsCall(op)
          /\ ~ \E r \in expenses : r.id = last'.id )
        => /\ last'.status = 404
           /\ last'.body = NotFound
           /\ expenses' = expenses
           /\ budgets' = budgets ]_vars

C10_Witness ==
  /\ last.op = "update_expense" /\ last.status = 404
  /\ prev.op = "delete_expense" /\ prev.status = 404
  /\ expenses # {}
  /\ budgets # {}
====
